---- MODULE Spec2Model ----
(***************************************************************************)
(* Session / credential lifecycle of sengledwifipy: SengledLogin           *)
(* (valid_login, login, reset, cookie persistence), the guarded HTTP       *)
(* request wrapper of SengledWifiAPI (backoff + valid_login_required) and  *)
(* the entry points of SengledWifiMQTT that sit behind the guard.          *)
(*                                                                         *)
(* Every coroutine is cut at its awaits: one action is the code that runs  *)
(* between two suspension points.  A task is a record holding the label    *)
(* it is suspended at (pc), the continuations of its callers (stack), the  *)
(* value or exception travelling up, and its locals.  Answers of the       *)
(* cloud (HTTP bodies, status codes, transport failures) and of the file   *)
(* system are chosen by the environment when the awaited call completes.   *)
(*                                                                         *)
(* stats["api_calls"] is a diagnostic counter that no branch reads; it is  *)
(* not part of the state.                                                  *)
(***************************************************************************)
EXTENDS Integers, Sequences, FiniteSets, TLC

(* ------------------------------ bounds -------------------------------- *)
\* the clock advances in steps of one session lifetime, MaxTicks of them
MaxTicks == 1

(* ----------------------------- constants ------------------------------ *)
Procs == {"t1", "t2"}
Main == "t1"
Other == "t2"

None == "None"
Email == "user@example.com"

\* cookie jar contents: empty, or the JSESSIONID the cloud handed out
EmptyJar == "empty"
JSessionIds == {"J1", "J2"}
\* the cookie file: absent, or the jar that was pickled into it
NoFile == "absent"

\* datetime(1, 1, 1) in seconds before the model's first instant, clipped to
\* the integer range of the checker: older than every instant by far more
\* than a session lifetime
login_timestamp_initial == -2000000000
\* valid_login's session lifetime, in seconds
SessionLifetime == 86400
Instants == {k * SessionLifetime : k \in 0..MaxTicks}

SENGLED_ENDPOINTS ==
    [k \in {"login", "validSession", "serverDetails"} |->
        CASE k = "login" -> "ucenter/AuthenCross.json"
          [] k = "validSession" -> "ucenter/isSessionTimeout.json"
          [] k = "serverDetails" -> "life2/getServerInfo.json"]

\* SengledLogin._session is None
NoSession == [obj |-> None, jar |-> EmptyJar, connector |-> None]
\* SengledLogin._create_session: a fresh ClientSession, empty jar
NewSession == [obj |-> "ClientSession", jar |-> EmptyJar, connector |-> "open"]

(* --------------------------- exceptions ------------------------------- *)
\* catch_all_exceptions: what the decorator turns an exception into
catch_all_exceptions(e) ==
    CASE e \in {"ClientConnectionError", "KeyError", "ServerDisconnectedError"}
            -> [kind |-> "raise", val |-> "SengledWifipyConnectionError"]
      [] e \in {"JSONDecodeError", "CookieError", "ContentTypeError"}
            -> [kind |-> "raise", val |-> "SengledWifipyLoginError"]
      [] e = "CancelledError"
            -> [kind |-> "return", val |-> None]
      [] OTHER -> [kind |-> "raise", val |-> e]

(* ------------------------------ state --------------------------------- *)
VARIABLES
    now,              \* wall clock, seconds
    session,          \* SengledLogin._session: None or a ClientSession
    status,           \* SengledLogin.status["login_successful"]: unset/True/False
    login_timestamp,  \* SengledLogin.stats["login_timestamp"]
    cookiefile,       \* content of SengledLogin._cookiefile on disk
    customer_id,      \* SengledLogin._customer_id
    urls,             \* SengledLogin._urls (the SENGLED_ENDPOINTS dict itself)
    devices,          \* SengledWifiAPI.devices, the class-level cache
    mqttc,            \* the SengledWifiMQTT manager built on the session
    login2,           \* a second SengledLogin instance of the process
    task              \* the coroutines: task[c] for c in Procs

vars == <<now, session, status, login_timestamp, cookiefile, customer_id, urls,
          devices, mqttc, login2, task>>

\* no second SengledLogin has been constructed
NoLogin2 == [made |-> FALSE, urls |-> None, customer_id |-> None]

NoServerInfo ==
    [kind |-> None, messageCode |-> 0, appServerAddr |-> None, inceptionAddr |-> None,
     mqttSslPort |-> None]

\* accounts that key the device cache
Accounts == {Email, "other@example.com"}
\* a cache entry: nothing yet, a device list, or the cache dict itself
NoEntry == [kind |-> "unset", list |-> <<>>]
\* no SengledWifiMQTT has been constructed.  status is _status; open_callback
\* and msg_callback tell whether the host registered one; cb records the
\* last callback the network thread ran: the subscribe calls it made, the
\* coroutines it scheduled on the loop, the device it parsed, what it raised;
\* msg is the message the last on_message was called with
NoManager ==
    [made |-> FALSE, jsession_id |-> None, clientid |-> None, mqtt_server |-> None,
     devices |-> [given |-> FALSE, list |-> <<>>], loop |-> FALSE, connected |-> FALSE,
     published |-> [topic |-> None, payload |-> <<>>, qos |-> 0,
                    sent |-> FALSE, calls |-> <<>>, ret |-> None],
     status |-> FALSE, open_callback |-> FALSE, msg_callback |-> FALSE,
     msg |-> [topic |-> <<>>, payload |-> <<>>],
     cb |-> [name |-> None, rc |-> 0, subscribe |-> <<>>, scheduled |-> <<>>,
             device |-> [id |-> None, time |-> 0, attributes |-> {}], exc |-> None]]

NoLoginAnswer == [kind |-> None, ret |-> 0, customerId |-> None, cookie |-> EmptyJar]
NoValidSessionAnswer == [kind |-> None, messageCode |-> 0]

\* the session state as a login() call finds it, and how it was called
NoSnapshot ==
    [skip |-> TRUE, customer_id |-> None, status |-> "unset",
     login_timestamp |-> login_timestamp_initial, cookiefile |-> NoFile, session |-> NoSession]

\* a coroutine that is not running.  pc, stack, ret, exc are its control
\* state; cookie_jar, tries, elapsed, entity_ids, devices_arg are locals of
\* the frames it is in; the remaining fields record what the running call
\* has observed so far (the instant and file seen by valid_login, the
\* answers of the cloud, what the guard got from valid_login and login,
\* which guarded body ran, whether the call began with login_successful
\* False, whether every earlier try of the wrapper ended in a 429 answer, the
\* status code answered to the current try, the outcome of the wrapper, the
\* endpoint map and the session state at the start of a login call, how
\* many times reset() was entered, whether an os.remove failed, whether a
\* reset() was called in the state the reset() before it had left, how many
\* times valid_login was entered in the call, how many requests the current
\* valid_login has sent)
IdleTask ==
    [pc |-> "idle", stack |-> <<>>, ret |-> None, exc |-> None,
     signal |-> None, deviceList |-> <<>>,
     op |-> "none", outcome |-> [kind |-> "none", val |-> None],
     cookie_jar |-> None, tries |-> 0, elapsed |-> 0,
     entity_ids |-> [all |-> TRUE, ids |-> {}],
     devices_arg |-> [given |-> FALSE, list |-> <<>>],
     guardValid |-> None, guardLogin |-> None, body |-> None,
     after401 |-> FALSE, clean |-> TRUE, last |-> 0,
     wrap |-> [kind |-> "none", val |-> None],
     vlAge |-> 0, vlFile |-> NoFile, vlAnswer |-> NoValidSessionAnswer,
     loginAnswer |-> NoLoginAnswer, serverInfo |-> NoServerInfo,
     urlsBefore |-> SENGLED_ENDPOINTS, before |-> NoSnapshot,
     resets |-> 0, rmFailed |-> FALSE, again |-> FALSE,
     checks |-> 0, posts |-> 0]

\* the observations of a finished valid_login, login or try are dropped
\* when its caller goes on
ClearVL(t) ==
    [t EXCEPT !.vlAge = 0, !.vlFile = NoFile, !.vlAnswer = NoValidSessionAnswer,
              !.resets = 0, !.rmFailed = FALSE, !.posts = 0]
ClearLogin(t) ==
    [t EXCEPT !.loginAnswer = NoLoginAnswer, !.serverInfo = NoServerInfo,
              !.cookie_jar = None, !.urlsBefore = SENGLED_ENDPOINTS,
              !.before = NoSnapshot, !.rmFailed = FALSE]
ClearTry(t) ==
    [ClearLogin(ClearVL(t)) EXCEPT !.guardValid = None, !.guardLogin = None, !.body = None]

\* a top-level call starts: fresh locals
StartTask(entry, k, op) ==
    [IdleTask EXCEPT !.pc = entry, !.stack = <<k>>, !.op = op]

Init ==
    /\ now = 0
    /\ session = NewSession
    /\ status = "unset"
    /\ login_timestamp = login_timestamp_initial
    /\ cookiefile \in {NoFile, "J1"}
    /\ customer_id = None
    /\ urls = SENGLED_ENDPOINTS
    /\ devices = [a \in Accounts |-> NoEntry]
    /\ mqttc = NoManager
    /\ login2 = NoLogin2
    /\ task = [c \in Procs |-> IdleTask]

(* ------------------------ control-flow helpers ------------------------ *)
\* the session state a call finds; login(SkipTest) notes how it was called
Snapshot(SkipTest) ==
    [skip |-> SkipTest, customer_id |-> customer_id, status |-> status,
     login_timestamp |-> login_timestamp, cookiefile |-> cookiefile, session |-> session]

\* the top-level call of a task ends
Finish(t, kind, val) ==
    [t EXCEPT !.pc = "idle", !.stack = <<>>, !.ret = None, !.exc = None,
              !.outcome = [kind |-> kind, val |-> val]]

\* await callee(): suspend the caller at continuation k, enter the callee
Call(t, entry, k) ==
    [t EXCEPT !.pc = entry, !.stack = <<k>> \o @]

\* return v: resume the caller at its continuation
Return(t, v) ==
    [t EXCEPT !.pc = Head(t.stack), !.stack = Tail(@), !.ret = v]

\* raise e: the exception travels up, one frame per Propagate step
Raise(t, e) ==
    [t EXCEPT !.pc = "raise", !.exc = e]

SetTask(c, t) == task' = [task EXCEPT ![c] = t]

(* ----------------------------- the clock ------------------------------ *)
\* time passes between calls: a call is short against a tick
Tick ==
    /\ \A c \in Procs : task[c].pc = "idle"
    /\ now + SessionLifetime \in Instants
    /\ now' = now + SessionLifetime
    /\ UNCHANGED <<session, status, login_timestamp, cookiefile, customer_id, urls, task>>
    /\ UNCHANGED <<devices, mqttc, login2>>

(* --------------------------- valid_login ------------------------------ *)
\* faulty variant: the age of the last login is not looked at
FreshMutant(ts, t) == TRUE

\* (datetime.now() - login_timestamp).total_seconds() < 86400
Fresh(ts, t) == t - ts < SessionLifetime

CallValidLogin(c) ==
    /\ task[c].pc = "idle"
    /\ SetTask(c, StartTask("vl_start", "top", "valid_login"))
    /\ UNCHANGED <<now, session, status, login_timestamp, cookiefile, customer_id, urls>>
    /\ UNCHANGED <<devices, mqttc, login2>>


\* a POST needs a session object with a live connector
CanPost(s) == s.obj # None /\ s.connector = "open"

\* answers of the validSession endpoint (isSessionTimeout.json)
ValidSessionAnswers ==
    {[kind |-> "transport", messageCode |-> 0],
     [kind |-> "undecodable", messageCode |-> 0],
     [kind |-> "falsy", messageCode |-> 0],
     [kind |-> "json", messageCode |-> 200],
     [kind |-> "json", messageCode |-> 100]}

\* line 140, left operand: the age of the last login
VL_Start(c) ==
    /\ task[c].pc = "vl_start"
    /\ LET t == [task[c] EXCEPT !.vlAge = now - login_timestamp, !.vlFile = cookiefile,
                                 !.vlAnswer = NoValidSessionAnswer,
                                 !.checks = @ + 1, !.posts = 0] IN
       IF Fresh(login_timestamp, now)
       THEN SetTask(c, [t EXCEPT !.pc = "vl_exists"])
       ELSE SetTask(c, Call(t, "rs_start", "vl_rs"))
    /\ UNCHANGED <<now, session, status, login_timestamp, cookiefile, customer_id, urls>>
    /\ UNCHANGED <<devices, mqttc, login2>>

\* line 140, right operand, to the POST of line 147
VL_Exists(c) ==
    /\ task[c].pc = "vl_exists"
    /\ IF cookiefile = NoFile
       THEN /\ SetTask(c, Call(task[c], "rs_start", "vl_rs"))
            /\ UNCHANGED session
       ELSE IF ~CanPost(session)
       THEN /\ SetTask(c, Raise(task[c], "AttributeError"))
            /\ UNCHANGED session
       ELSE /\ session' = IF session.jar = EmptyJar
                          THEN [session EXCEPT !.jar = cookiefile]
                          ELSE session
            /\ SetTask(c, [task[c] EXCEPT !.pc = "vl_post", !.posts = @ + 1])
    /\ UNCHANGED <<now, status, login_timestamp, cookiefile, customer_id, urls>>
    /\ UNCHANGED <<devices, mqttc, login2>>

\* faulty variant: a messageCode of 200 is not taken as valid
ValidSessionVerdictMutant(a) ==
    CASE a.kind = "transport" -> "raise:ClientConnectionError"
      [] a.kind = "undecodable" -> "raise:AttributeError"
      [] OTHER -> "invalid"

\* what valid_login does with the answer: lines 153-163
ValidSessionVerdict(a) ==
    CASE a.kind = "transport" -> "raise:ClientConnectionError"
      [] a.kind = "undecodable" -> "raise:AttributeError"
      [] a.kind = "falsy" -> "invalid"
      [] a.kind = "json" /\ a.messageCode = 200 -> "valid"
      [] OTHER -> "invalid"

\* the validSession answer arrives: lines 147-163
VL_Response(c) ==
    /\ task[c].pc = "vl_post"
    /\ \E a \in ValidSessionAnswers :
         LET v == ValidSessionVerdict(a)
             t == [task[c] EXCEPT !.vlAnswer = a] IN
         CASE v = "raise:ClientConnectionError" -> SetTask(c, Raise(t, "ClientConnectionError"))
           [] v = "raise:AttributeError" -> SetTask(c, Raise(t, "AttributeError"))
           [] v = "valid" -> SetTask(c, Return(t, "True"))
           [] OTHER -> SetTask(c, Call(t, "rs_start", "vl_rs"))
    /\ UNCHANGED <<now, session, status, login_timestamp, cookiefile, customer_id, urls>>
    /\ UNCHANGED <<devices, mqttc, login2>>

\* lines 166-167: reset() came back
VL_AfterReset(c) ==
    /\ task[c].pc = "vl_rs"
    /\ SetTask(c, Return(task[c], "False"))
    /\ UNCHANGED <<now, session, status, login_timestamp, cookiefile, customer_id, urls>>
    /\ UNCHANGED <<devices, mqttc, login2>>

(* ------------------------ reset, delete_cookie ------------------------ *)
\* close(): the connector of an open session is closed and dropped
RS_Close(c) ==
    /\ task[c].pc = "rs_start"
    /\ session' = IF session.obj # None THEN [session EXCEPT !.connector = None] ELSE session
    /\ SetTask(c, [task[c] EXCEPT !.pc = "rs_clear", !.resets = @ + 1])
    /\ UNCHANGED <<now, status, login_timestamp, cookiefile, customer_id, urls>>
    /\ UNCHANGED <<devices, mqttc, login2>>

\* reset lines 271-273, up to the first await of delete_cookie
RS_Clear(c) ==
    /\ task[c].pc = "rs_clear"
    /\ session' = NoSession
    /\ status' = "unset"
    /\ SetTask(c, Call(task[c], "dc_exists", "rs_del"))
    /\ UNCHANGED <<now, login_timestamp, cookiefile, customer_id, urls>>
    /\ UNCHANGED <<devices, mqttc, login2>>

\* delete_cookie line 280
DC_Exists(c) ==
    /\ task[c].pc = "dc_exists"
    /\ IF cookiefile # NoFile
       THEN SetTask(c, [task[c] EXCEPT !.pc = "dc_remove"])
       ELSE SetTask(c, Return(task[c], None))
    /\ UNCHANGED <<now, session, status, login_timestamp, cookiefile, customer_id, urls>>
    /\ UNCHANGED <<devices, mqttc, login2>>

\* faulty variant: the file is never removed
RemovedMutant(ok, f) == f

\* os.remove: the file is gone, or the removal failed and it is still there
Removed(ok, f) == IF ok THEN NoFile ELSE f

\* delete_cookie lines 281-287: os.remove succeeds, or fails and is logged
DC_Remove(c) ==
    /\ task[c].pc = "dc_remove"
    /\ \E ok \in BOOLEAN :
         /\ cookiefile' = Removed(ok, cookiefile)
         /\ SetTask(c, Return([task[c] EXCEPT !.rmFailed = ~ok], None))
    /\ UNCHANGED <<now, session, status, login_timestamp, customer_id, urls>>
    /\ UNCHANGED <<devices, mqttc, login2>>

\* faulty variant: no session is created
CreateSessionMutant(s) == s

\* _create_session lines 115-124: a session is made only when there is none
CreateSession(s) == IF s.obj = None THEN NewSession ELSE s

\* reset line 274: _create_session
RS_Create(c) ==
    /\ task[c].pc = "rs_del"
    /\ session' = CreateSession(session)
    /\ SetTask(c, Return(task[c], None))
    /\ UNCHANGED <<now, status, login_timestamp, cookiefile, customer_id, urls>>
    /\ UNCHANGED <<devices, mqttc, login2>>


\* reset(), save_cookiefile() and delete_cookie() called by the application
CallReset(c) ==
    /\ task[c].pc = "idle"
    /\ SetTask(c, [StartTask("rs_start", "top", "reset") EXCEPT
                       !.before = Snapshot(FALSE), !.urlsBefore = urls,
                       !.again = /\ task[c].op = "reset"
                                 /\ task[c].outcome.kind = "return"
                                 /\ task[c].before = Snapshot(FALSE)
                                 /\ task[c].urlsBefore = urls])
    /\ UNCHANGED <<now, session, status, login_timestamp, cookiefile, customer_id, urls>>
    /\ UNCHANGED <<devices, mqttc, login2>>

CallDeleteCookie(c) ==
    /\ task[c].pc = "idle"
    /\ SetTask(c, StartTask("dc_exists", "top", "delete_cookie"))
    /\ UNCHANGED <<now, session, status, login_timestamp, cookiefile, customer_id, urls>>
    /\ UNCHANGED <<devices, mqttc, login2>>

\* save_cookiefile lines 207-212: the jar of the session, then delete_cookie
CallSaveCookiefile(c) ==
    /\ task[c].pc = "idle"
    /\ SetTask(c, Call([StartTask("dc_exists", "top", "save_cookiefile")
                            EXCEPT !.cookie_jar = session.jar], "dc_exists", "sv_del"))
    /\ UNCHANGED <<now, session, status, login_timestamp, cookiefile, customer_id, urls>>
    /\ UNCHANGED <<devices, mqttc, login2>>

\* the dict a SengledLogin._urls refers to: line 65 binds the attribute to
\* the module's SENGLED_ENDPOINTS object, the one that
\* _get_server_info updates in place
EndpointsOf(ref) == IF ref = "SENGLED_ENDPOINTS" THEN urls ELSE SENGLED_ENDPOINTS

\* SengledLogin.__init__ for another account: line 65, line 78
NewLogin2 ==
    /\ \A c \in Procs : task[c].pc = "idle"
    /\ ~login2.made
    /\ login2' = [made |-> TRUE, urls |-> "SENGLED_ENDPOINTS", customer_id |-> None]
    /\ UNCHANGED <<now, session, status, login_timestamp, cookiefile, customer_id, urls>>
    /\ UNCHANGED <<devices, mqttc, task>>

\* the cookie file is removed from outside the library, between calls
ExternalDelete ==
    /\ \A c \in Procs : task[c].pc = "idle"
    /\ cookiefile # NoFile
    /\ cookiefile' = NoFile
    /\ UNCHANGED <<now, session, status, login_timestamp, customer_id, urls, task>>
    /\ UNCHANGED <<devices, mqttc, login2>>

(* ------------------------------- login -------------------------------- *)
\* faulty variant: SkipTest is ignored, the session is always tested first
LoginEntryMutant(SkipTest) == "lg_start"

\* lines 179-180: valid_login is awaited unless SkipTest
LoginEntry(SkipTest) == IF SkipTest THEN "lg_cred" ELSE "lg_start"

\* login(SkipTest): the credential POST is reached directly when SkipTest
CallLogin(c, SkipTest) ==
    /\ task[c].pc = "idle"
    /\ SetTask(c, [StartTask(LoginEntry(SkipTest), "top_ca", "login")
                       EXCEPT !.urlsBefore = urls, !.before = Snapshot(SkipTest)])
    /\ UNCHANGED <<now, session, status, login_timestamp, cookiefile, customer_id, urls>>
    /\ UNCHANGED <<devices, mqttc, login2>>

\* lines 179-180: await self.valid_login()
LG_Start(c) ==
    /\ task[c].pc = "lg_start"
    /\ SetTask(c, Call(task[c], "vl_start", "lg_vl"))
    /\ UNCHANGED <<now, session, status, login_timestamp, cookiefile, customer_id, urls>>
    /\ UNCHANGED <<devices, mqttc, login2>>

\* lines 180-181: a valid session makes login a no-op
LG_AfterValid(c) ==
    /\ task[c].pc = "lg_vl"
    /\ IF task[c].ret = "True"
       THEN SetTask(c, Return(ClearVL(task[c]), None))
       ELSE SetTask(c, [ClearVL(task[c]) EXCEPT !.pc = "lg_cred"])
    /\ UNCHANGED <<now, session, status, login_timestamp, cookiefile, customer_id, urls>>
    /\ UNCHANGED <<devices, mqttc, login2>>

\* lines 185-190: the credential POST is sent
LG_Cred(c) ==
    /\ task[c].pc = "lg_cred"
    /\ IF CanPost(session)
       THEN SetTask(c, [task[c] EXCEPT !.pc = "lg_post"])
       ELSE SetTask(c, Raise(task[c], "AttributeError"))
    /\ UNCHANGED <<now, session, status, login_timestamp, cookiefile, customer_id, urls>>
    /\ UNCHANGED <<devices, mqttc, login2>>

\* answers of the login endpoint (AuthenCross.json); a successful one sets
\* the JSESSIONID cookie of the session
LoginAnswers ==
    {[kind |-> k, ret |-> 0, customerId |-> None, cookie |-> EmptyJar] :
        k \in {"transport", "undecodable", "falsy"}}
    \cup {[kind |-> "json", ret |-> 1, customerId |-> None, cookie |-> EmptyJar]}
    \cup {[kind |-> "json", ret |-> 0, customerId |-> "cust1", cookie |-> j] : j \in JSessionIds}

\* faulty variant: every decoded answer counts as a success
LoginAcceptedMutant(a) == a.kind = "json"

\* line 194: int(post_resp.get("ret")) == 0
LoginAccepted(a) == a.kind = "json" /\ a.ret = 0

\* lines 191-200, up to the first await of save_cookiefile/delete_cookie
LG_Response(c) ==
    /\ task[c].pc = "lg_post"
    /\ \E a \in LoginAnswers :
         LET t == [task[c] EXCEPT !.loginAnswer = a] IN
         CASE a.kind = "transport" ->
                /\ SetTask(c, Raise(t, "ClientConnectionError"))
                /\ UNCHANGED <<session, status, login_timestamp, customer_id>>
           [] a.kind = "undecodable" ->
                /\ SetTask(c, Raise(t, "JSONDecodeError"))
                /\ UNCHANGED <<session, status, login_timestamp, customer_id>>
           [] LoginAccepted(a) ->
                /\ customer_id' = a.customerId
                /\ status' = "True"
                /\ login_timestamp' = now
                /\ session' = IF session.obj # None
                              THEN [session EXCEPT !.jar = a.cookie] ELSE session
                /\ IF session.obj # None
                   THEN SetTask(c, Call(Call([t EXCEPT !.cookie_jar = a.cookie],
                                             "dc_exists", "lg_save"), "dc_exists", "sv_del"))
                   ELSE SetTask(c, Raise(t, "AttributeError"))
           [] OTHER ->
                /\ SetTask(c, Return(t, None))
                /\ UNCHANGED <<session, status, login_timestamp, customer_id>>
    /\ UNCHANGED <<now, cookiefile, urls>>
    /\ UNCHANGED <<devices, mqttc, login2>>

\* faulty variant: the error of the write is passed on as it is
SaveErrorMutant == "OSError"

\* save_cookiefile lines 214-217: what a failed write is raised as
SaveError == "SengledWifipyLoginError"

\* save_cookiefile lines 213-217: cookie_jar.save(), after delete_cookie
SV_Save(c) ==
    /\ task[c].pc = "sv_del"
    /\ \E ok \in BOOLEAN :
         IF ok
         THEN /\ cookiefile' = task[c].cookie_jar
              /\ SetTask(c, Return([task[c] EXCEPT !.cookie_jar = None], None))
         ELSE /\ UNCHANGED cookiefile
              /\ SetTask(c, Raise([task[c] EXCEPT !.cookie_jar = None], SaveError))
    /\ UNCHANGED <<now, session, status, login_timestamp, customer_id, urls>>
    /\ UNCHANGED <<devices, mqttc, login2>>

\* login line 201 and _get_server_info lines 235-240: the serverDetails POST
LG_AfterSave(c) ==
    /\ task[c].pc = "lg_save"
    /\ IF CanPost(session)
       THEN SetTask(c, Call(task[c], "si_post", "lg_info"))
       ELSE SetTask(c, Raise(Call(task[c], "si_post", "lg_info"), "AttributeError"))
    /\ UNCHANGED <<now, session, status, login_timestamp, cookiefile, customer_id, urls>>
    /\ UNCHANGED <<devices, mqttc, login2>>

\* answers of the serverDetails endpoint (getServerInfo.json)
ServerInfoAnswers ==
    {[kind |-> k, messageCode |-> 0, appServerAddr |-> None, inceptionAddr |-> None,
      mqttSslPort |-> None] : k \in {"transport", "undecodable"}}
    \cup {[kind |-> "json", messageCode |-> 500, appServerAddr |-> "app1",
           inceptionAddr |-> "mq1", mqttSslPort |-> "p1"]}
    \cup {[kind |-> "json", messageCode |-> 200, appServerAddr |-> "app" \o n,
           inceptionAddr |-> "mq" \o n, mqttSslPort |-> "p" \o n] : n \in {"1", "2"}}

\* faulty variant: the mqtt host taken from the wrong field
UpdateUrlsMutant(u, a) ==
    [k \in DOMAIN u \cup {"appserver", "mqtt", "mqttport"} |->
        CASE k = "appserver" -> a.appServerAddr
          [] k = "mqtt" -> a.appServerAddr
          [] k = "mqttport" -> a.mqttSslPort
          [] OTHER -> u[k]]

\* _get_server_info lines 249-255: self._urls.update({...})
UpdateUrls(u, a) ==
    [k \in DOMAIN u \cup {"appserver", "mqtt", "mqttport"} |->
        CASE k = "appserver" -> a.appServerAddr
          [] k = "mqtt" -> a.inceptionAddr
          [] k = "mqttport" -> a.mqttSslPort
          [] OTHER -> u[k]]

\* _get_server_info lines 242-257
SI_Response(c) ==
    /\ task[c].pc = "si_post"
    /\ \E a \in ServerInfoAnswers :
         LET t == [task[c] EXCEPT !.serverInfo = a] IN
         CASE a.kind = "transport" ->
                /\ SetTask(c, Raise(t, "ClientConnectionError"))
                /\ UNCHANGED urls
           [] a.kind = "undecodable" ->
                /\ SetTask(c, Raise(t, "AttributeError"))
                /\ UNCHANGED urls
           [] OTHER ->
                /\ urls' = IF a.messageCode = 200 THEN UpdateUrls(urls, a) ELSE urls
                /\ SetTask(c, Return(t, None))
    /\ UNCHANGED <<now, session, status, login_timestamp, cookiefile, customer_id>>
    /\ UNCHANGED <<devices, mqttc, login2>>

\* login line 202
LG_AfterInfo(c) ==
    /\ task[c].pc = "lg_info"
    /\ SetTask(c, Return(task[c], None))
    /\ UNCHANGED <<now, session, status, login_timestamp, cookiefile, customer_id, urls>>
    /\ UNCHANGED <<devices, mqttc, login2>>


(* ---------------------- valid_login_required -------------------------- *)
\* helpers.py line 194: await login.valid_login()
G_Start(c) ==
    /\ task[c].pc = "g_start"
    /\ SetTask(c, Call(task[c], "vl_start", "g_vl"))
    /\ UNCHANGED <<now, session, status, login_timestamp, cookiefile, customer_id, urls>>
    /\ UNCHANGED <<devices, mqttc, login2>>

\* line 196: return await func(*args, **kwargs)
EnterBody(t) ==
    IF t.op = "get_devices" THEN Call(t, "sr_start", "g_body") ELSE Call(t, "ac_body", "g_body")

\* lines 194-196: an invalid session triggers login(SkipTest=True)
NeedsLogin(r) == r # "True"

G_AfterValid(c) ==
    /\ task[c].pc = "g_vl"
    /\ LET t == [ClearVL(task[c]) EXCEPT !.guardValid = task[c].ret] IN
       IF NeedsLogin(task[c].ret)
       THEN SetTask(c, Call([t EXCEPT !.urlsBefore = urls, !.before = Snapshot(TRUE)],
                            LoginEntry(TRUE), "g_lg"))
       ELSE SetTask(c, EnterBody(t))
    /\ UNCHANGED <<now, session, status, login_timestamp, cookiefile, customer_id, urls>>
    /\ UNCHANGED <<devices, mqttc, login2>>

\* lines 195-196: whatever login returned, the guarded function is called
G_AfterLogin(c) ==
    /\ task[c].pc = "g_lg"
    /\ SetTask(c, EnterBody([ClearLogin(task[c]) EXCEPT !.guardLogin =
                                IF task[c].loginAnswer.kind = "json" /\ task[c].loginAnswer.ret = 0
                                THEN "ok" ELSE "failed"]))
    /\ UNCHANGED <<now, session, status, login_timestamp, cookiefile, customer_id, urls>>
    /\ UNCHANGED <<devices, mqttc, login2>>

G_AfterBody(c) ==
    /\ task[c].pc = "g_body"
    /\ SetTask(c, Return(task[c], task[c].ret))
    /\ UNCHANGED <<now, session, status, login_timestamp, cookiefile, customer_id, urls>>
    /\ UNCHANGED <<devices, mqttc, login2>>

(* --------------------- backoff.on_exception --------------------------- *)
max_tries == 5
max_time == 60
\* elapsed seconds since the first try, as far as the wrapper tells them apart
ElapsedValues == {0, max_time}

Retryable ==
    {"SengledWifipyTooManyRequestsError", "SengledWifipyConnectionError", "ClientConnectionError"}

\* faulty variants of the give-up rule: one try too few, one try too many
GiveUpMutantEarly(e, tries, elapsed) ==
    \/ e \notin Retryable
    \/ tries >= max_tries - 1
    \/ elapsed >= max_time

GiveUpMutantLate(e, tries, elapsed) ==
    \/ e \notin Retryable
    \/ tries > max_tries
    \/ elapsed >= max_time

\* backoff gives up: not a listed exception, tries used up, or time used up
GiveUp(e, tries, elapsed) ==
    \/ e \notin Retryable
    \/ tries = max_tries
    \/ elapsed >= max_time

\* one try: tries += 1, elapsed is read, the guarded function is awaited
BO_Try(c) ==
    /\ task[c].pc = "bo_try"
    /\ \E el \in ElapsedValues :
         /\ IF task[c].tries = 0 THEN el = 0 ELSE el >= task[c].elapsed
         /\ SetTask(c, Call([task[c] EXCEPT !.tries = @ + 1, !.elapsed = el, !.last = 0],
                            "g_start", "bo_ret"))
    /\ UNCHANGED <<now, session, status, login_timestamp, cookiefile, customer_id, urls>>
    /\ UNCHANGED <<devices, mqttc, login2>>

\* the guarded function returned: the wrapper returns its value
BO_Return(c) ==
    /\ task[c].pc = "bo_ret"
    /\ SetTask(c, Return([ClearTry(task[c]) EXCEPT
                              !.wrap = [kind |-> "return", val |-> task[c].ret]],
                         task[c].ret))
    /\ UNCHANGED <<now, session, status, login_timestamp, cookiefile, customer_id, urls>>
    /\ UNCHANGED <<devices, mqttc, login2>>

\* await asyncio.sleep(seconds) is over
BO_Sleep(c) ==
    /\ task[c].pc = "bo_sleep"
    /\ SetTask(c, [task[c] EXCEPT !.pc = "bo_try"])
    /\ UNCHANGED <<now, session, status, login_timestamp, cookiefile, customer_id, urls>>
    /\ UNCHANGED <<devices, mqttc, login2>>

(* -------------------------- _static_request --------------------------- *)
\* lines 71-79: the URL is built from urls["appserver"], the request is sent
SR_Start(c) ==
    /\ task[c].pc = "sr_start"
    /\ IF "appserver" \notin DOMAIN urls
       THEN SetTask(c, Raise(task[c], "KeyError"))
       ELSE IF ~CanPost(session)
       THEN SetTask(c, Raise(task[c], "AttributeError"))
       ELSE SetTask(c, [task[c] EXCEPT !.pc = "sr_resp", !.body = "request"])
    /\ UNCHANGED <<now, session, status, login_timestamp, cookiefile, customer_id, urls>>
    /\ UNCHANGED <<devices, mqttc, login2>>

\* status codes the device-list endpoint answers with; 0 is no answer at
\* all (the transport failed)
StatusCodes == {0, 200, 401, 429, 500}

\* faulty variants: other statuses raise; a 401 raises a retried error
ClassifyMutantRaise(st) ==
    CASE st = 401 -> [kind |-> "raise", val |-> "SengledWifipyLoginError"]
      [] st = 429 -> [kind |-> "raise", val |-> "SengledWifipyTooManyRequestsError"]
      [] st >= 400 -> [kind |-> "raise", val |-> "SengledWifipyConnectionError"]
      [] OTHER -> [kind |-> "return", val |-> "response"]

ClassifyMutantRetry401(st) ==
    CASE st = 401 -> [kind |-> "raise", val |-> "SengledWifipyConnectionError"]
      [] st = 429 -> [kind |-> "raise", val |-> "SengledWifipyTooManyRequestsError"]
      [] st >= 400 -> [kind |-> "return", val |-> None]
      [] OTHER -> [kind |-> "return", val |-> "response"]

\* lines 86-94: the classification of the status code
Classify(st) ==
    CASE st = 401 -> [kind |-> "raise", val |-> "SengledWifipyLoginError"]
      [] st = 429 -> [kind |-> "raise", val |-> "SengledWifipyTooManyRequestsError"]
      [] st >= 400 -> [kind |-> "return", val |-> None]
      [] OTHER -> [kind |-> "return", val |-> "response"]

\* lines 74-94: the answer arrives
SR_Response(c) ==
    /\ task[c].pc = "sr_resp"
    /\ \E st \in StatusCodes :
         LET t == [task[c] EXCEPT !.last = st] IN
         IF st = 0
         THEN /\ SetTask(c, Raise(t, "ClientConnectionError"))
              /\ UNCHANGED status
         ELSE /\ status' = IF st = 401 THEN "False" ELSE status
              /\ IF Classify(st).kind = "raise"
                 THEN SetTask(c, Raise(t, Classify(st).val))
                 ELSE SetTask(c, Return(t, Classify(st).val))
    /\ UNCHANGED <<now, session, login_timestamp, cookiefile, customer_id, urls>>
    /\ UNCHANGED <<devices, mqttc, login2>>

(* ----------------------------- get_devices ---------------------------- *)
DeviceLists ==
    {<<[deviceUuid |-> "D1", category |-> "wifielement"],
       [deviceUuid |-> "D2", category |-> "wifielement"]>>,
     <<[deviceUuid |-> "D1", category |-> "other"],
       [deviceUuid |-> "D2", category |-> "wifielement"]>>}

EntityIdArgs == {[all |-> TRUE, ids |-> {}], [all |-> FALSE, ids |-> {"D2"}]}

\* faulty variant: entity_ids is not looked at
FilterDevicesMutant(list, entity_ids) ==
    SelectSeq(list, LAMBDA item : item.category = "wifielement")

\* lines 113-117: the comprehension over deviceList
FilterDevices(list, entity_ids) ==
    SelectSeq(list, LAMBDA item :
        item.category = "wifielement" /\ (entity_ids.all \/ item.deviceUuid \in entity_ids.ids))

\* get_devices(login, entity_ids): line 110 enters the request wrapper
CallGetDevices(c, entity_ids) ==
    /\ task[c].pc = "idle"
    /\ SetTask(c, Call([StartTask("bo_try", "top_ca", "get_devices")
                            EXCEPT !.entity_ids = entity_ids,
                                   !.after401 = (status = "False")], "bo_try", "gd_req"))
    /\ UNCHANGED <<now, session, status, login_timestamp, cookiefile, customer_id, urls>>
    /\ UNCHANGED <<devices, mqttc, login2>>

\* lines 112-124: the cache entry of the account is assigned
GD_AfterRequest(c) ==
    /\ task[c].pc = "gd_req"
    /\ IF task[c].ret = "response"
       THEN \E decoded \in BOOLEAN, list \in DeviceLists :
              IF decoded
              THEN /\ devices' = [devices EXCEPT ![Email] =
                                    [kind |-> "list",
                                     list |-> FilterDevices(list, task[c].entity_ids)]]
                   /\ SetTask(c, Return([task[c] EXCEPT !.deviceList = list],
                                        "devices[email]"))
              ELSE /\ list = <<>>
                   /\ UNCHANGED devices
                   /\ SetTask(c, Raise(task[c], "JSONDecodeError"))
       ELSE /\ devices' = [devices EXCEPT ![Email] = [kind |-> "dict", list |-> <<>>]]
            /\ SetTask(c, Return(task[c], "devices[email]"))
    /\ UNCHANGED <<now, session, status, login_timestamp, cookiefile, customer_id, urls>>
    /\ UNCHANGED <<mqttc, login2>>

(* ------------------- exceptions and return to the caller -------------- *)
\* where a coroutine is suspended in an await on the outside world: a file
\* operation, a request or the decoding of its answer, the closing of the
\* session, the sleep of the retry wrapper
SuspensionPoints ==
    {"vl_exists", "vl_post", "rs_start", "dc_exists", "dc_remove",
     "lg_post", "si_post", "sr_resp", "gd_req", "bo_sleep"}

\* what the event loop or the host can throw into a suspended coroutine
Signals == {"CancelledError", "SengledWifipyLoginCloseRequested"}

\* the await the coroutine is suspended in raises e, once in a call
Signal(c, e) ==
    /\ task[c].pc \in SuspensionPoints
    /\ task[c].signal = None
    /\ SetTask(c, Raise([task[c] EXCEPT !.signal = e], e))
    /\ UNCHANGED <<now, session, status, login_timestamp, cookiefile, customer_id, urls>>
    /\ UNCHANGED <<devices, mqttc, login2>>

\* an exception leaves the frame whose caller waits at Head(stack)
Propagate(c) ==
    /\ task[c].pc = "raise"
    /\ LET t == task[c]
           k == Head(t.stack)
           e == t.exc
           up == [(IF k \in {"g_vl", "lg_vl"} THEN ClearVL(t)
                   ELSE IF k = "g_lg" THEN ClearLogin(t)
                   ELSE IF k = "bo_ret" THEN ClearTry(t) ELSE t) EXCEPT !.stack = Tail(@)]
           ca == catch_all_exceptions(e) IN
       CASE k = "top" -> SetTask(c, Finish(t, "raise", e))
         [] k = "top_ca" -> SetTask(c, Finish(t, ca.kind, ca.val))
         [] k = "g_lg" ->
              IF ca.kind = "return"
              THEN SetTask(c, [up EXCEPT !.pc = "g_lg", !.ret = ca.val, !.exc = None])
              ELSE SetTask(c, [up EXCEPT !.exc = ca.val])
         [] k = "bo_ret" ->
              IF GiveUp(e, t.tries, t.elapsed)
              THEN SetTask(c, [up EXCEPT !.wrap = [kind |-> "raise", val |-> e]])
              ELSE SetTask(c, [up EXCEPT !.pc = "bo_sleep", !.exc = None,
                                         !.clean = @ /\ t.last = 429,
                                         !.after401 = FALSE])
         [] OTHER -> SetTask(c, up)
    /\ UNCHANGED <<now, session, status, login_timestamp, cookiefile, customer_id, urls>>
    /\ UNCHANGED <<devices, mqttc, login2>>

\* the outermost coroutine returns; a decorated one returns through
\* catch_all_exceptions, which passes values on
Done(c) ==
    /\ task[c].pc \in {"top", "top_ca"}
    /\ SetTask(c, Finish(IF task[c].op = "reset"
                         THEN [task[c] EXCEPT !.before = Snapshot(FALSE), !.urlsBefore = urls]
                         ELSE task[c],
                         "return", task[c].ret))
    /\ UNCHANGED <<now, session, status, login_timestamp, cookiefile, customer_id, urls>>
    /\ UNCHANGED <<devices, mqttc, login2>>


(* --------------------------- SengledWifiMQTT -------------------------- *)
\* the callbacks a host passes to __init__ (lines 45-46): both or none
CallbackArgs ==
    {[open_callback |-> TRUE, msg_callback |-> TRUE],
     [open_callback |-> FALSE, msg_callback |-> FALSE]}

\* __init__ lines 61-92: the client identity is read from the session
\* cookie and the broker address from urls["mqtt"], once
MqttInit(c) ==
    /\ task[c].pc = "idle"
    /\ ~mqttc.made
    /\ IF session.obj = None
       THEN /\ SetTask(c, Finish(StartTask("idle", "top", "mqtt_init"), "raise", "AttributeError"))
            /\ UNCHANGED mqttc
       ELSE IF session.jar = EmptyJar \/ "mqtt" \notin DOMAIN urls
       THEN /\ SetTask(c, Finish(StartTask("idle", "top", "mqtt_init"), "raise", "KeyError"))
            /\ UNCHANGED mqttc
       ELSE /\ \E cbs \in CallbackArgs :
                 mqttc' = [NoManager EXCEPT !.made = TRUE, !.jsession_id = session.jar,
                                            !.clientid = session.jar \o "@lifeApp",
                                            !.mqtt_server = urls["mqtt"],
                                            !.open_callback = cbs.open_callback,
                                            !.msg_callback = cbs.msg_callback]
            /\ SetTask(c, Finish(StartTask("idle", "top", "mqtt_init"), "return", None))
    /\ UNCHANGED <<now, session, status, login_timestamp, cookiefile, customer_id, urls>>
    /\ UNCHANGED <<devices, login2>>

DevicesArgs ==
    {[given |-> FALSE, list |-> <<>>]} \cup
    {[given |-> TRUE, list |-> FilterDevices(l, [all |-> TRUE, ids |-> {}])] : l \in DeviceLists}

\* async_connect(devices) enters through valid_login_required
CallAsyncConnect(c, devs) ==
    /\ task[c].pc = "idle"
    /\ mqttc.made
    /\ SetTask(c, [StartTask("g_start", "top", "async_connect")
                       EXCEPT !.devices_arg = devs, !.after401 = (status = "False")])
    /\ UNCHANGED <<now, session, status, login_timestamp, cookiefile, customer_id, urls>>
    /\ UNCHANGED <<devices, mqttc, login2>>

\* async_connect lines 104-112: devices stored, connect_async, loop_start
AC_Body(c) ==
    /\ task[c].pc = "ac_body"
    /\ mqttc' = [mqttc EXCEPT !.devices = task[c].devices_arg, !.loop = TRUE]
    /\ SetTask(c, Return([task[c] EXCEPT !.body = "connect"], None))
    /\ UNCHANGED <<now, session, status, login_timestamp, cookiefile, customer_id, urls>>
    /\ UNCHANGED <<devices, login2>>

(* ------------------- callbacks of the network thread ------------------ *)
\* what a callback starts from: nothing subscribed, scheduled, parsed, raised
StartCallback(name, rc) == [NoManager.cb EXCEPT !.name = name, !.rc = rc]

\* the reason codes a broker answers a connection request with
ReasonCodes == {0, 5}

\* faulty variant: every answer of the broker counts as a success
AcceptedMutant(rc) == TRUE

\* line 129: the test that selects the success branch
Accepted(rc) == rc = 0

\* faulty variant: the first device of the list gets no topic
TopicsMutant(devs) ==
    [i \in 1..(Len(devs) - 1) |-> <<"wifielement/" \o devs[i + 1].deviceUuid \o "/status", 2>>]

\* line 132: one (topic, qos) pair per device, in the order of the list
Topics(devs) ==
    [i \in 1..Len(devs) |-> <<"wifielement/" \o devs[i].deviceUuid \o "/status", 2>>]

\* the client counts as connected (is_connected(), line 237) from the moment
\* the broker has accepted the connection, before on_connect is called
Connack(m, rc) == [m EXCEPT !.connected = IF rc = 0 THEN TRUE ELSE @]

\* on_connect lines 129-138.  Iterating devices that are still None raises
\* in line 132, before anything else is done
OnConnect(rc) ==
    /\ mqttc.made /\ mqttc.loop
    /\ LET cb == StartCallback("on_connect", rc)
           m == Connack(mqttc, rc) IN
       IF ~Accepted(rc)
       THEN mqttc' = [m EXCEPT !.cb = cb]
       ELSE IF ~m.devices.given
       THEN mqttc' = [m EXCEPT !.cb = [cb EXCEPT !.exc = "TypeError"]]
       ELSE mqttc' = [m EXCEPT
                        !.status = TRUE,
                        !.cb = [cb EXCEPT
                                  !.subscribe = <<Topics(mqttc.devices.list)>>,
                                  !.scheduled = IF mqttc.open_callback
                                                THEN <<[fn |-> "open_callback", args |-> <<>>]>>
                                                ELSE <<>>]]
    /\ UNCHANGED <<now, session, status, login_timestamp, cookiefile, customer_id, urls>>
    /\ UNCHANGED <<devices, task, login2>>

\* the characters of a text, in groups: a separator is a group of its own
Slash == "/"
\* one token of a payload: a bracket, a comma, or an object with its members
Token(tok) == [tok |-> tok, type |-> None, value |-> None, time |-> 0]
Object(type, value, time) == [tok |-> "obj", type |-> type, value |-> value, time |-> time]

RECURSIVE SplitAcc(_, _, _, _)
SplitAcc(s, sep, acc, cur) ==
    IF s = <<>> THEN Append(acc, cur)
    ELSE IF Head(s) = sep THEN SplitAcc(Tail(s), sep, Append(acc, cur), "")
    ELSE SplitAcc(Tail(s), sep, acc, cur \o Head(s))

\* str.split(sep)
split(s, sep) == SplitAcc(s, sep, <<>>, "")

\* json.loads accepts the text: brackets around objects separated by commas
Decodable(p) ==
    /\ Len(p) >= 2
    /\ p[1].tok = "[" /\ p[Len(p)].tok = "]"
    /\ \/ Len(p) = 2
       \/ /\ Len(p) % 2 = 1
          /\ \A i \in 2..(Len(p) - 1) : p[i].tok = (IF i % 2 = 0 THEN "obj" ELSE ",")

\* json.loads of a text it accepts: the objects, in order
loads(p) == [i \in 1..((Len(p) - 1) \div 2) |-> p[2 * i]]

\* faulty variant: an assignment that keeps the value a key already has
PutMutant(d, k, v) == IF \E e \in d : e[1] = k THEN d ELSE d \cup {<<k, v>>}

\* line 163: d[k] = v on a dict, kept as its set of (key, value) items
Put(d, k, v) == {e \in d : e[1] # k} \cup {<<k, v>>}

\* lines 162-163: the loop over the elements of the payload
RECURSIVE Attributes(_, _)
Attributes(items, d) ==
    IF items = <<>> THEN d
    ELSE Attributes(Tail(items), Put(d, Head(items).type, Head(items).value))

\* lines 156-163: what on_message makes of a message.  The members of
\* dict(...) in line 160 are evaluated left to right
ParseMessage(msg) ==
    LET segs == split(msg.topic, Slash) IN
    IF segs[1] # "wifielement" THEN [exc |-> None, accepted |-> FALSE, device |-> NoManager.cb.device]
    ELSE IF Len(segs) < 2 THEN [exc |-> "IndexError", accepted |-> TRUE, device |-> NoManager.cb.device]
    ELSE IF ~Decodable(msg.payload)
    THEN [exc |-> "JSONDecodeError", accepted |-> TRUE, device |-> NoManager.cb.device]
    ELSE IF Len(loads(msg.payload)) = 0
    THEN [exc |-> "IndexError", accepted |-> TRUE, device |-> NoManager.cb.device]
    ELSE [exc |-> None, accepted |-> TRUE,
          device |-> [id |-> segs[2], time |-> loads(msg.payload)[1].time,
                      attributes |-> Attributes(loads(msg.payload), {})]]

\* payloads the broker delivers: one element, three elements of which two
\* have the same type, no element, and a text that is cut short
Payloads ==
    [one |-> <<Token("["), Object("switch", "1", 10), Token("]")>>,
     three |-> <<Token("["), Object("brightness", "50", 20), Token(","),
                 Object("switch", "0", 21), Token(","),
                 Object("brightness", "80", 22), Token("]")>>,
     none |-> <<Token("["), Token("]")>>,
     cut |-> <<Token("["), Object("switch", "1", 10)>>]

Messages ==
    {[topic |-> <<"wifielement", "/", "D1", "/", "status">>, payload |-> Payloads.one],
     [topic |-> <<"wifi", "element", "/", "D", "2", "/", "status">>, payload |-> Payloads.three],
     [topic |-> <<"other", "/", "D1", "/", "status">>, payload |-> Payloads.one],
     [topic |-> <<"wifielement">>, payload |-> Payloads.one],
     [topic |-> <<"wifielement", "/", "D1", "/", "status">>, payload |-> Payloads.none],
     [topic |-> <<"wifielement", "/", "D1", "/", "status">>, payload |-> Payloads.cut]}

\* on_message lines 152-168; msg is kept as the message the callback got
OnMessage(msg) ==
    /\ mqttc.made /\ mqttc.loop
    /\ LET cb == StartCallback("on_message", 0)
           r == ParseMessage(msg) IN
       mqttc' = [mqttc EXCEPT
                   !.cb = [cb EXCEPT
                             !.exc = r.exc,
                             !.device = r.device,
                             !.scheduled = IF r.accepted /\ r.exc = None /\ mqttc.msg_callback
                                           THEN <<[fn |-> "msg_callback", args |-> <<>>]>>
                                           ELSE <<>>],
                   !.msg = msg]
    /\ UNCHANGED <<now, session, status, login_timestamp, cookiefile, customer_id, urls>>
    /\ UNCHANGED <<devices, task, login2>>

\* on_subscribe lines 170-184: the answer to a subscription is logged
OnSubscribe ==
    /\ mqttc.made /\ mqttc.loop
    /\ mqttc' = [mqttc EXCEPT !.cb = StartCallback("on_subscribe", 0)]
    /\ UNCHANGED <<now, session, status, login_timestamp, cookiefile, customer_id, urls>>
    /\ UNCHANGED <<devices, task, login2>>

\* line 200: self._status = False
LogStatus(st) == FALSE

\* on_log lines 186-200: line 92 registers it for every log line the client
\* writes, whatever the level of the logger
OnLog ==
    /\ mqttc.made /\ mqttc.loop
    /\ mqttc' = [mqttc EXCEPT !.status = LogStatus(@), !.cb = StartCallback("on_log", 0)]
    /\ UNCHANGED <<now, session, status, login_timestamp, cookiefile, customer_id, urls>>
    /\ UNCHANGED <<devices, task, login2>>

\* on_disconnect lines 202-217; the client no longer counts as connected
OnDisconnect(rc) ==
    /\ mqttc.made /\ mqttc.loop
    /\ mqttc' = [mqttc EXCEPT !.status = FALSE, !.connected = FALSE,
                              !.cb = StartCallback("on_disconnect", rc)]
    /\ UNCHANGED <<now, session, status, login_timestamp, cookiefile, customer_id, urls>>
    /\ UNCHANGED <<devices, task, login2>>

(* ------------------------------ publish_mqtt -------------------------- *)
\* how the hand-off of a message ends: wait_for_publish returns and
\* is_published() is True or False, or wait_for_publish raises ValueError
PublishOutcomes == {"published", "unpublished", "ValueError"}

\* lines 244-250: the value publish_mqtt returns
PublishResult(outcome) == IF outcome = "published" THEN "True" ELSE "False"

\* faulty variant: the network loop is restarted before the connect
PublishCallsMutant(connected) ==
    IF connected THEN <<"publish">> ELSE <<"loop_start", "connect", "publish">>

\* lines 237-242: the calls on the client when every one of them returns
PublishCalls(connected) ==
    IF connected THEN <<"publish">> ELSE <<"connect", "loop_start", "publish">>

\* publish_mqtt lines 237-250 on manager m.  calls lists the calls made on
\* the paho client, in order.  The blocking connect of sync_connect succeeds
\* (connects) or raises; is_connected() turns true only when the network
\* loop has processed the broker's answer
publish_mqtt(m, topic, payload, connects, outcome) ==
    LET pub == [topic |-> topic, payload |-> payload, qos |-> 0,
                sent |-> FALSE, calls |-> <<>>, ret |-> None] IN
    IF ~m.connected /\ ~connects
    THEN [exc |-> "OSError", ret |-> None,
          m |-> [m EXCEPT !.published = [pub EXCEPT !.calls = <<PublishCalls(m.connected)[1]>>]]]
    ELSE [exc |-> None, ret |-> PublishResult(outcome),
          m |-> [m EXCEPT !.loop = (m.loop \/ ~m.connected),
                          !.published = [pub EXCEPT !.sent = (outcome = "published"),
                                                    !.calls = PublishCalls(m.connected),
                                                    !.ret = PublishResult(outcome)]]]

\* the messages a host publishes itself
PublishArgs == {[topic |-> "wifielement/D1/update", payload |-> <<>>]}

\* publish_mqtt(topic, payload) called by the host: it has no await
CallPublishMqtt(c, topic, payload) ==
    /\ task[c].pc = "idle"
    /\ mqttc.made
    /\ \E connects \in BOOLEAN, outcome \in PublishOutcomes :
         LET r == publish_mqtt(mqttc, topic, payload, connects, outcome)
             t == StartTask("idle", "top", "publish_mqtt") IN
         /\ mqttc.connected => connects
         /\ r.exc # None => outcome = "unpublished"
         /\ mqttc' = r.m
         /\ SetTask(c, IF r.exc # None THEN Finish(t, "raise", r.exc)
                       ELSE Finish(t, "return", r.ret))
    /\ UNCHANGED <<now, session, status, login_timestamp, cookiefile, customer_id, urls>>
    /\ UNCHANGED <<devices, login2>>

(* --------------------------- set_device_state ------------------------- *)
\* the values a caller passes for an optional argument
PyNone == [kind |-> "None", v |-> None]
PyBool(b) == [kind |-> "bool", v |-> b]
PyInt(i) == [kind |-> "int", v |-> i]
PyStr(s) == [kind |-> "str", v |-> s]
\* an element of the options list of line 178: a dict with name and value
PyDict(name, value) == [kind |-> "dict", name |-> name, value |-> value]

\* (power_on, brightness, color, color_temperature) of the calls that are
\* made; a colour is the text of a tuple, in groups of characters
StateArgs ==
    {<<PyBool(TRUE), PyInt(128), PyNone, PyNone>>,
     <<PyBool(FALSE), PyNone, PyNone, PyInt(2700)>>,
     <<PyNone, PyInt(130), PyStr(<<"(", "255", ",", " ", "0", ",", " ", "64", ")">>), PyInt(6500)>>,
     <<PyNone, PyNone, PyNone, PyNone>>}
EntityIds == {"D1"}

\* faulty variant: the quotient is cut off, not rounded
RoundPercentMutant(x, d) == (100 * x) \div d

\* round(x / d * 100) for non-negative integers (no ties occur for d = 255, 6500)
RoundPercent(x, d) == (200 * x + d) \div (2 * d)

\* lines 150-154: convert_color_HA drops blanks and brackets and turns
\* every comma into a colon
RECURSIVE convert_color_HA(_)
convert_color_HA(hacolor) ==
    IF hacolor = <<>> THEN ""
    ELSE LET ch == Head(hacolor) IN
         (IF ch \in {" ", "(", ")"} THEN "" ELSE IF ch = "," THEN ":" ELSE ch)
         \o convert_color_HA(Tail(hacolor))

\* line 169: str(int(time.time()) - 1577858400)
UptimeOffset == 1577858400
timev(t) == ToString(t - UptimeOffset)

\* lines 156-167: the five options, each a dict or None.  Line 167 tests
\* color_temperature after line 161 has rebound it to a dict or to None
Options(power_on, brightness, color, color_temperature) ==
    LET o_power == IF power_on.kind = "bool"
                   THEN PyDict("switch", IF power_on.v THEN "1" ELSE "0") ELSE PyNone
        o_bright == IF brightness.kind = "int"
                    THEN PyDict("brightness", ToString(RoundPercent(brightness.v, 255)))
                    ELSE PyNone
        o_color == IF color.kind = "str"
                   THEN PyDict("color", convert_color_HA(color.v)) ELSE PyNone
        o_temp == IF color_temperature.kind = "int"
                  THEN PyDict("colorTemperature",
                              ToString(RoundPercent(color_temperature.v, 6500)))
                  ELSE PyNone
        color_temp == IF o_temp.kind = "int" THEN PyDict("color", "255:45:41") ELSE PyNone
    IN <<o_power, o_bright, o_color, o_temp, color_temp>>

\* lines 171-180: one entry per option that is not None, in list order
CommandEntries(entity_id, t, options) ==
    LET kept == SelectSeq(options, LAMBDA option : option.kind # "None") IN
    [i \in 1..Len(kept) |->
        [dn |-> entity_id, type |-> kept[i].name, value |-> kept[i].value, time |-> timev(t)]]

\* one piece of a JSON text: a bracket, a comma, or an object
JsonPiece(tok, obj) == [tok |-> tok, obj |-> obj]
NoObject == [dn |-> None, type |-> None, value |-> None, time |-> None]

\* json.dumps of a list of entries: the text, piece by piece
dumps(data) ==
    <<JsonPiece("[", NoObject)>>
    \o [i \in 1..(IF data = <<>> THEN 0 ELSE 2 * Len(data) - 1) |->
           IF i % 2 = 1 THEN JsonPiece("obj", data[(i + 1) \div 2])
           ELSE JsonPiece(",", NoObject)]
    \o <<JsonPiece("]", NoObject)>>

\* lines 184-190: what set_device_state returns for the value publish_mqtt
\* gave it: a bare return in one branch, the end of the function in the other
SetStateResult(published) == None

\* set_device_state and publish_mqtt run without an await: lines 156-190 of
\* the API and 237-250 of the manager
SetDeviceState(c, entity_id, power_on, brightness, color, color_temperature) ==
    /\ task[c].pc = "idle"
    /\ mqttc.made
    /\ \E connects \in BOOLEAN, outcome \in PublishOutcomes :
         LET data == CommandEntries(entity_id, now,
                                    Options(power_on, brightness, color, color_temperature))
             r == publish_mqtt(mqttc, "wifielement/" \o entity_id \o "/update",
                               dumps(data), connects, outcome)
             t == [StartTask("idle", "top_ca", "set_device_state") EXCEPT !.body = "publish"] IN
         /\ mqttc.connected => connects
         /\ r.exc # None => outcome = "unpublished"
         /\ mqttc' = r.m
         /\ SetTask(c, IF r.exc # None THEN Finish([t EXCEPT !.body = None], "raise", r.exc)
                       ELSE Finish(t, "return", SetStateResult(r.ret)))
    /\ UNCHANGED <<now, session, status, login_timestamp, cookiefile, customer_id, urls>>
    /\ UNCHANGED <<devices, login2>>

(* ------------------------------ the system ---------------------------- *)
\* the steps the coroutines of SengledLogin run through once called
ValidLoginSteps(c) ==
    \/ VL_Start(c) \/ VL_Exists(c) \/ VL_Response(c) \/ VL_AfterReset(c)
    \/ RS_Close(c) \/ RS_Clear(c) \/ DC_Exists(c) \/ DC_Remove(c) \/ RS_Create(c)

\* login() from its credential POST on
CredentialSteps(c) ==
    \/ LG_Cred(c) \/ LG_Response(c)
    \/ SV_Save(c) \/ LG_AfterSave(c) \/ SI_Response(c) \/ LG_AfterInfo(c)

LoginSteps(c) ==
    \/ ValidLoginSteps(c)
    \/ LG_Start(c) \/ LG_AfterValid(c)
    \/ CredentialSteps(c)
    \/ Propagate(c) \/ Done(c)

\* SengledLogin: the calls a host makes and the steps they run through
LoginStep(c) ==
    \/ CallValidLogin(c)
    \/ \E SkipTest \in BOOLEAN : CallLogin(c, SkipTest)
    \/ LoginSteps(c)

GuardStep(c) ==
    G_Start(c) \/ G_AfterValid(c) \/ G_AfterLogin(c) \/ G_AfterBody(c)

\* SengledWifiAPI.get_devices through the request wrapper
ApiStep(c) ==
    \/ \E entity_ids \in EntityIdArgs : CallGetDevices(c, entity_ids)
    \/ BO_Try(c) \/ BO_Return(c) \/ BO_Sleep(c)
    \/ SR_Start(c) \/ SR_Response(c) \/ GD_AfterRequest(c)

\* SengledWifiMQTT: construction and async_connect
ConnectStep(c) ==
    \/ MqttInit(c)
    \/ \E devs \in DevicesArgs : CallAsyncConnect(c, devs)
    \/ AC_Body(c)

\* set_device_state and publish_mqtt
PublishStep(c) ==
    \/ \E e \in EntityIds, a \in StateArgs : SetDeviceState(c, e, a[1], a[2], a[3], a[4])
    \/ \E p \in PublishArgs : CallPublishMqtt(c, p.topic, p.payload)

\* SengledWifiMQTT and set_device_state
MqttStep(c) == ConnectStep(c) \/ PublishStep(c)

\* the callbacks paho runs on its network thread
CallbackStep ==
    \/ \E rc \in ReasonCodes : OnConnect(rc)
    \/ \E msg \in Messages : OnMessage(msg)
    \/ OnSubscribe \/ OnLog
    \/ \E rc \in ReasonCodes : OnDisconnect(rc)

\* reset, save_cookiefile and delete_cookie as calls of their own
SessionStep(c) == CallReset(c) \/ CallSaveCookiefile(c) \/ CallDeleteCookie(c)

\* the caller awaits one operation at a time: Main issues them in turn
Next == Tick \/ ExternalDelete \/ NewLogin2 \/ SessionStep(Main) \/ LoginStep(Main) \/ GuardStep(Main) \/ ApiStep(Main) \/ MqttStep(Main) \/ CallbackStep \/ \E e \in Signals : Signal(Main, e)

Spec == Init /\ [][Next]_vars

\* the session and the device directory, without an MQTT manager
NextApi == Tick \/ LoginStep(Main) \/ GuardStep(Main) \/ ApiStep(Main)

SpecApi == Init /\ [][NextApi]_vars

\* the session and the connection of the MQTT manager, without the device
\* directory
NextMqtt == Tick \/ LoginStep(Main) \/ GuardStep(Main) \/ ConnectStep(Main)

SpecMqtt == Init /\ [][NextMqtt]_vars

\* the session alone: every operation of SengledLogin, and the file system
NextLogin == Tick \/ ExternalDelete \/ NewLogin2 \/ SessionStep(Main) \/ LoginStep(Main)

SpecLogin == Init /\ [][NextLogin]_vars

\* the calls of a host that logs in, builds the manager and connects
HostCall(c) ==
    \/ CallValidLogin(c)
    \/ \E SkipTest \in BOOLEAN : CallLogin(c, SkipTest)
    \/ MqttInit(c)
    \/ \E devs \in DevicesArgs : CallAsyncConnect(c, devs)

\* the session, the MQTT manager and the callbacks of its network thread:
\* once the network loop runs, the host starts no further call
NextCallbacks ==
    \/ ~mqttc.loop /\ HostCall(Main)
    \/ LoginSteps(Main) \/ GuardStep(Main) \/ AC_Body(Main)
    \/ CallbackStep

SpecCallbacks == Init /\ [][NextCallbacks]_vars

\* the session, the MQTT manager and what it publishes: the host logs in
\* with its credentials, builds the manager and connects, and publishes at
\* any time, before and after the broker has accepted the connection
NextPublish ==
    \/ /\ ~mqttc.loop
       /\ \/ CallLogin(Main, TRUE) \/ MqttInit(Main)
          \/ \E devs \in DevicesArgs : CallAsyncConnect(Main, devs)
    \/ ValidLoginSteps(Main) \/ CredentialSteps(Main) \/ Propagate(Main) \/ Done(Main)
    \/ GuardStep(Main) \/ AC_Body(Main)
    \/ \E rc \in ReasonCodes : OnConnect(rc)
    \/ PublishStep(Main)

SpecPublish == Init /\ [][NextPublish]_vars

\* one try of a get_devices call: the guard, the request, the cache
TryStep(c) ==
    \/ LoginSteps(c) \/ GuardStep(c)
    \/ BO_Try(c) \/ BO_Return(c) \/ SR_Start(c) \/ SR_Response(c) \/ GD_AfterRequest(c)

\* a coroutine that is not running: it waits at an await that gives up
\* control to the event loop, or it has not started or has ended
Suspended(t) == t.pc \in SuspensionPoints \cup {"idle"}

\* the event loop runs one coroutine at a time, up to its next suspension
Scheduled(c) == \A d \in Procs \ {c} : Suspended(task[d])

\* two get_devices calls on the same session that overlap: the second starts
\* while the first is suspended, and each is followed through its first try
NextTwo ==
    \/ task[Main].op = "none" /\ \E entity_ids \in EntityIdArgs : CallGetDevices(Main, entity_ids)
    \/ /\ task[Other].op = "none" /\ task[Main].pc # "idle" /\ Scheduled(Other)
       /\ \E entity_ids \in EntityIdArgs : CallGetDevices(Other, entity_ids)
    \/ \E c \in Procs : Scheduled(c) /\ TryStep(c)

SpecTwo == Init /\ [][NextTwo]_vars

\* the guarded calls, with a cancellation or a close request thrown into
\* one of them: the device list is asked for before the manager is built,
\* and the host starts no further call after the one that was interrupted
NextSignal ==
    \/ /\ task[Main].signal = None /\ ~mqttc.loop
       /\ \/ HostCall(Main)
          \/ ~mqttc.made /\ \E entity_ids \in EntityIdArgs : CallGetDevices(Main, entity_ids)
    \/ LoginSteps(Main) \/ GuardStep(Main) \/ AC_Body(Main)
    \/ BO_Try(Main) \/ BO_Return(Main) \/ BO_Sleep(Main)
    \/ SR_Start(Main) \/ SR_Response(Main) \/ GD_AfterRequest(Main)
    \/ \E e \in Signals : Signal(Main, e)

SpecSignal == Init /\ [][NextSignal]_vars


(* ============================== the claims ============================ *)
\* where a coroutine has just come back to its caller
VLReturned(t) ==
    t.pc \in {"g_vl", "lg_vl"} \/ (t.op = "valid_login" /\ t.pc = "top")
VLRaised(t) ==
    /\ t.pc = "raise"
    /\ Head(t.stack) \in {"g_vl", "lg_vl"} \/ (t.op = "valid_login" /\ Head(t.stack) = "top")
LoginReturned(t) ==
    t.pc = "g_lg" \/ (t.op = "login" /\ t.pc = "top_ca")
LoginRaised(t) ==
    /\ t.pc = "raise"
    /\ Head(t.stack) = "g_lg" \/ (t.op = "login" /\ Head(t.stack) = "top_ca")
WrapperDone(t) == t.wrap.kind # "none"

\* the three conditions of a valid session, as they were when valid_login ran
SessionConditions(t) ==
    /\ t.vlAge < 86400
    /\ t.vlFile # NoFile
    /\ t.vlAnswer.kind = "json" /\ t.vlAnswer.messageCode = 200

\* C1: valid_login returns true exactly when the last login is less than 24
\* hours old, the cookie file exists and validSession answers a JSON body
\* with messageCode 200, and returns false in every other case.
C1_ValidLoginIff ==
    \A c \in Procs :
        LET t == task[c] IN
        (VLReturned(t) \/ VLRaised(t)) =>
            /\ VLReturned(t)
            /\ t.ret = IF SessionConditions(t) THEN "True" ELSE "False"

\* C2: a guarded body (the device-list request, async_connect, the publish
\* of set_device_state) runs only after valid_login returned true or the
\* login triggered by the guard succeeded with ret == 0.
C2_BodyOnlyWhenValid ==
    \A c \in Procs :
        LET t == task[c] IN
        t.body # None => (t.guardValid = "True" \/ t.guardLogin = "ok")

\* C3: a 401 leaves login_successful False, and a guarded call that starts
\* in that state sends the credential POST before its own request, whatever
\* validSession answers.
C3_ReloginAfter401 ==
    \A c \in Procs :
        LET t == task[c] IN
        /\ t.last = 401 => status = "False"
        /\ (t.after401 /\ t.body # None) => t.guardLogin # None

\* C4: the request wrapper makes at most 5 tries, each sending at most one
\* request; it retries only after a rate-limit error, a connection error or
\* a transport failure; when the 5th try fails with one of these the
\* wrapper ends and raises that error.
C4_AtMostFiveTries ==
    [][\A c \in Procs :
        LET t == task[c]
            u == task'[c]
            retried == {"SengledWifipyTooManyRequestsError", "SengledWifipyConnectionError",
                        "ClientConnectionError"} IN
        /\ u.tries <= 5
        /\ (t.pc = "sr_start" /\ u.pc = "sr_resp") => t.body = None
        /\ (t.pc = "raise" /\ u.pc = "bo_sleep") => t.exc \in retried
        /\ (t.pc = "raise" /\ Head(t.stack) = "bo_ret" /\ t.tries = 5 /\ t.exc \in retried)
              => (u.pc = "raise" /\ u.exc = t.exc /\ u.wrap = [kind |-> "raise", val |-> t.exc])
      ]_vars

C4_Witness ==
    \E c \in Procs :
        /\ task[c].tries = 5
        /\ task[c].wrap = [kind |-> "raise", val |-> "SengledWifipyTooManyRequestsError"]

\* C5 as stated: after k <= 4 consecutive 429 answers the wrapper is still
\* trying, so that a success answered next is returned at try k+1: it gives
\* up on a 429 only at the 5th try, and a success that follows 429 answers
\* only is the wrapper's result.
C5_SuccessAfter429s ==
    \A c \in Procs :
        LET t == task[c] IN
        /\ (t.clean /\ t.wrap = [kind |-> "raise", val |-> "SengledWifipyTooManyRequestsError"])
              => t.tries = 5
        /\ (t.clean /\ t.last = 200 /\ WrapperDone(t))
              => t.wrap = [kind |-> "return", val |-> "response"]

\* C5 amended: the same, provided less than 60 seconds had elapsed when
\* the try that got the 429 began; otherwise the wrapper gives up early.
C5_SuccessAfter429sInTime ==
    \A c \in Procs :
        LET t == task[c] IN
        /\ (t.clean /\ t.wrap = [kind |-> "raise", val |-> "SengledWifipyTooManyRequestsError"])
              => (t.tries = 5 \/ t.elapsed >= 60)
        /\ (t.clean /\ t.last = 200 /\ WrapperDone(t))
              => (t.wrap = [kind |-> "return", val |-> "response"] /\ t.tries <= 5)

C5_Witness ==
    \E c \in Procs :
        /\ task[c].clean /\ task[c].last = 200 /\ task[c].tries = 5
        /\ task[c].wrap = [kind |-> "return", val |-> "response"]

\* C6: a status below 400 and a 401 are final: the try that got them is not
\* followed by a retry, the response is returned as it is, the 401 raises the
\* login error.
C6_SuccessAnd401Final ==
    \A c \in Procs :
        LET t == task[c] IN
        /\ (t.last # 0 /\ t.last < 400) =>
              /\ t.pc \notin {"bo_sleep", "bo_try"}
              /\ WrapperDone(t) => t.wrap = [kind |-> "return", val |-> "response"]
        /\ t.last = 401 =>
              /\ t.pc \notin {"bo_sleep", "bo_try"}
              /\ WrapperDone(t) => t.wrap = [kind |-> "raise", val |-> "SengledWifipyLoginError"]

C6_Witness ==
    \E c \in Procs :
        /\ task[c].last = 401 /\ task[c].tries = 1
        /\ task[c].wrap = [kind |-> "raise", val |-> "SengledWifipyLoginError"]

C8_LoginOrder ==
    \A c \in Procs :
        LET t == task[c] IN
        /\ t.pc = "si_post" =>
              /\ t.loginAnswer.kind = "json" /\ t.loginAnswer.ret = 0
              /\ customer_id = t.loginAnswer.customerId
              /\ status = "True"
              /\ login_timestamp = now
              /\ cookiefile = t.loginAnswer.cookie /\ cookiefile # NoFile
        /\ (t.pc = "lg_info" /\ t.serverInfo.messageCode = 200) =>
              /\ {"appserver", "mqtt", "mqttport"} \subseteq DOMAIN urls
              /\ urls["appserver"] = t.serverInfo.appServerAddr
              /\ urls["mqtt"] = t.serverInfo.inceptionAddr
              /\ urls["mqttport"] = t.serverInfo.mqttSslPort

C8_Witness ==
    \E c \in Procs :
        /\ task[c].pc = "lg_info" /\ task[c].serverInfo.messageCode = 200
        /\ "appserver" \in DOMAIN task[c].urlsBefore
        /\ task[c].urlsBefore["appserver"] # task[c].serverInfo.appServerAddr

\* C9: when ret == 0 is followed by a serverDetails answer that cannot be
\* decoded or whose messageCode is not 200, login returns without raising,
\* login_successful stays True, the cookie file stays, the endpoint map is
\* as before the call.
C9_ServerInfoFailureSilent ==
    \A c \in Procs :
        LET t == task[c] IN
        ( /\ LoginReturned(t) \/ LoginRaised(t)
          /\ t.loginAnswer.kind = "json" /\ t.loginAnswer.ret = 0
          /\ \/ t.serverInfo.kind = "undecodable"
             \/ t.serverInfo.kind = "json" /\ t.serverInfo.messageCode # 200 )
        => /\ LoginReturned(t)
           /\ status = "True"
           /\ cookiefile # NoFile
           /\ urls = t.urlsBefore

\* C10: valid_login does not raise when the validSession body cannot be
\* decoded: it returns false.
C10_UndecodableIsInvalid ==
    \A c \in Procs :
        LET t == task[c] IN
        ((VLReturned(t) \/ VLRaised(t)) /\ t.vlAnswer.kind = "undecodable")
            => (VLReturned(t) /\ t.ret = "False")

\* the credential POST of the login call has been answered with ret # 0
LoginRejected(t) ==
    /\ LoginReturned(t) \/ LoginRaised(t)
    /\ t.loginAnswer.kind = "json" /\ t.loginAnswer.ret # 0

\* C11 as stated: after a ret other than 0, login() returns without raising
\* and customerId, the status flags, the timestamp, the cookie file, the
\* session and the endpoint map are as before the call, with SkipTest or
\* without.
C11_RejectedLoginChangesNothing ==
    \A c \in Procs :
        LET t == task[c] IN
        LoginRejected(t) =>
            /\ LoginReturned(t)
            /\ customer_id = t.before.customer_id
            /\ status = t.before.status
            /\ login_timestamp = t.before.login_timestamp
            /\ cookiefile = t.before.cookiefile
            /\ session = t.before.session
            /\ urls = t.urlsBefore

\* C11 amended: after a ret other than 0, login() returns without raising;
\* customerId, the timestamp and the endpoint map are as before the call;
\* with SkipTest the status flags, the cookie file and the session are as
\* before the call too; without SkipTest the POST was reached through a
\* valid_login() that returned false, whose reset() has emptied the status
\* flags and replaced the session by a fresh one with an empty jar.
C11_RejectedLoginKeepsState ==
    \A c \in Procs :
        LET t == task[c] IN
        LoginRejected(t) =>
            /\ LoginReturned(t)
            /\ customer_id = t.before.customer_id
            /\ login_timestamp = t.before.login_timestamp
            /\ urls = t.urlsBefore
            /\ t.before.skip =>
                  /\ status = t.before.status
                  /\ cookiefile = t.before.cookiefile
                  /\ session = t.before.session
            /\ ~t.before.skip =>
                  /\ status = "unset"
                  /\ session = NewSession
                  /\ cookiefile \in {NoFile, t.before.cookiefile}

C11_Witness ==
    \E c \in Procs :
        /\ LoginRejected(task[c])
        /\ ~task[c].before.skip
        /\ task[c].before.status = "True"
        /\ task[c].before.cookiefile # NoFile /\ cookiefile = NoFile

\* the coroutine is inside a valid_login() call, or has just left one
InValidLogin(t) ==
    \/ t.op = "valid_login"
    \/ \E i \in DOMAIN t.stack : t.stack[i] \in {"g_vl", "lg_vl"}

\* C12: a valid_login() that runs less than 24 hours after a successful
\* login, finds the cookie file and gets messageCode 200 from validSession
\* returns true, and no valid_login() call sends the credential POST.
C12_CookieReuse ==
    \A c \in Procs :
        LET t == task[c] IN
        /\ ( /\ VLReturned(t) \/ VLRaised(t)
             /\ t.vlAge < SessionLifetime
             /\ t.vlFile # NoFile
             /\ t.vlAnswer = [kind |-> "json", messageCode |-> 200] )
           => (VLReturned(t) /\ t.ret = "True")
        /\ InValidLogin(t) => t.pc \notin {"lg_cred", "lg_post"}

C12_Witness ==
    \E c \in Procs :
        /\ task[c].op = "valid_login" /\ task[c].pc = "top" /\ task[c].ret = "True"
        /\ task[c].vlAge = 0
        /\ customer_id # None /\ status = "True"
        /\ cookiefile \in JSessionIds /\ cookiefile = session.jar

\* C13 as stated: a valid_login() that returns false has run reset() exactly
\* once, and on return the cookie file is absent, the status flags are
\* empty and the session is a fresh one with an empty jar.
C13_InvalidMeansReset ==
    \A c \in Procs :
        LET t == task[c] IN
        (VLReturned(t) /\ t.ret = "False") =>
            /\ t.resets = 1
            /\ cookiefile = NoFile
            /\ status = "unset"
            /\ session = NewSession

\* C13 amended: the same, except that the cookie file is still there when
\* its removal failed (the failure is logged, not raised).
C13_InvalidMeansResetUnlessRemoveFails ==
    \A c \in Procs :
        LET t == task[c] IN
        (VLReturned(t) /\ t.ret = "False") =>
            /\ t.resets = 1
            /\ cookiefile = NoFile \/ (t.rmFailed /\ cookiefile = t.vlFile)
            /\ status = "unset"
            /\ session = NewSession

\* a login less than 24 hours old whose cookie file is gone
C13_Witness ==
    \E c \in Procs :
        /\ VLReturned(task[c]) /\ task[c].ret = "False"
        /\ task[c].vlAge < SessionLifetime /\ task[c].vlFile = NoFile
        /\ task[c].resets = 1 /\ customer_id # None

\* a reset() called by the application has ended
ResetEnded(t) ==
    /\ t.op = "reset"
    /\ t.pc = "top" \/ (t.pc = "raise" /\ Head(t.stack) = "top")

\* what reset() leaves, whatever it started from
ResetPost(t) ==
    /\ t.pc = "top"
    /\ status = "unset"
    /\ session = NewSession
    /\ customer_id = t.before.customer_id
    /\ login_timestamp = t.before.login_timestamp
    /\ urls = t.urlsBefore

\* C14 as stated: reset() never raises, and a reset() that follows a
\* reset() leaves the status flags, the cookie file, the jar, customerId,
\* the timestamp and the endpoint map as the first one left them.
C14_ResetIdempotent ==
    \A c \in Procs :
        LET t == task[c] IN
        ResetEnded(t) =>
            /\ ResetPost(t)
            /\ t.again => cookiefile = t.before.cookiefile

\* C14 amended: the same, except for the cookie file when its removal
\* failed in the first reset(): the second reset() removes it or fails
\* again.  A reset() whose removal does not fail leaves no file.
C14_ResetIdempotentUnlessRemoveFails ==
    \A c \in Procs :
        LET t == task[c] IN
        ResetEnded(t) =>
            /\ ResetPost(t)
            /\ cookiefile = NoFile \/ (t.rmFailed /\ cookiefile = t.before.cookiefile)
            /\ (t.again /\ t.before.cookiefile = NoFile) => cookiefile = NoFile

\* a second reset() after a first one that started from a logged-in session
C14_Witness ==
    \E c \in Procs :
        /\ ResetEnded(task[c]) /\ task[c].again
        /\ task[c].before.cookiefile = NoFile /\ cookiefile = NoFile
        /\ customer_id # None /\ "appserver" \in DOMAIN urls

\* C15: save_cookiefile() writes the jar only after delete_cookie() has
\* run: the old file is gone by then unless its removal failed; a failed
\* write raises the login error; a failed removal and the removal of an
\* absent file do not raise.
C15_SaveDeletesFirst ==
    [][/\ \A c \in Procs :
        LET t == task[c]
            u == task'[c] IN
        /\ (u.pc = "sv_del" /\ t.pc # "sv_del") =>
              /\ t.pc \in {"dc_exists", "dc_remove"}
              /\ cookiefile' = NoFile \/ u.rmFailed
        /\ t.pc = "sv_del" =>
              \/ u.pc # "raise" /\ cookiefile' = t.cookie_jar
              \/ u.pc = "raise" /\ u.exc = "SengledWifipyLoginError" /\ cookiefile' = cookiefile
        /\ t.pc \in {"dc_exists", "dc_remove"} => u.pc # "raise"
       /\ cookiefile' \notin {cookiefile, NoFile} => \E c \in Procs : task[c].pc = "sv_del"
      ]_vars

\* the old file was removed and the write failed
C15_Witness ==
    \E c \in Procs :
        /\ task[c].op = "save_cookiefile"
        /\ task[c].pc = "raise" /\ task[c].exc = "SengledWifipyLoginError"
        /\ ~task[c].rmFailed /\ cookiefile = NoFile
        /\ session.jar \in JSessionIds /\ status = "True"

\* C16: the endpoint map of a SengledLogin holds neither appserver nor mqtt
\* before that instance has logged in successfully, whatever another
\* instance has done.
C16_NoEndpointsBeforeLogin ==
    /\ customer_id = None =>
          {"appserver", "mqtt"} \cap DOMAIN urls = {}
    /\ (login2.made /\ login2.customer_id = None) =>
          {"appserver", "mqtt"} \cap DOMAIN EndpointsOf(login2.urls) = {}

\* C17: the account has one cookie file at most (its path is a function of
\* the e-mail address), and the file exists only after a credential login
\* has returned ret == 0: in this process (customerId is set), or in an
\* earlier one that left a file holding its session cookie.
C17_FileImpliesLogin ==
    cookiefile # NoFile => (customer_id # None \/ cookiefile \in JSessionIds)

\* a step in which the network thread ran on_connect with reason code rc
OnConnectStep(rc) ==
    /\ task' = task
    /\ mqttc' # mqttc
    /\ mqttc'.cb.name = "on_connect" /\ mqttc'.cb.rc = rc

\* the (topic, qos) pairs of every subscribe call the last callback made
Requested(m) ==
    {m.cb.subscribe[i][j] : <<i, j>> \in
        {p \in (1..Len(m.cb.subscribe)) \X (1..2) : p[2] <= Len(m.cb.subscribe[p[1]])}}

C19_FailedConnectOnlyLogs ==
    [][\A rc \in ReasonCodes \ {0} :
         OnConnectStep(rc) =>
            /\ mqttc'.cb.subscribe = <<>>
            /\ mqttc'.cb.scheduled = <<>>
            /\ [mqttc' EXCEPT !.cb = mqttc.cb] = mqttc]_vars

C19_Witness ==
    /\ mqttc.cb.name = "on_connect" /\ mqttc.cb.rc # 0
    /\ mqttc.devices.given /\ mqttc.open_callback
    /\ ~mqttc.status

\* the value of the last element of items whose type is ty
LastValue(items, ty) ==
    LET last == CHOOSE i \in 1..Len(items) :
                    /\ items[i].type = ty
                    /\ \A j \in (i + 1)..Len(items) : items[j].type # ty
    IN items[last].value

\* C20: for a message whose topic is wifielement/{id}/... and whose payload is
\* a non-empty JSON array, on_message parses a device whose id is the second
\* segment of the topic, whose time is the time of the first element, and
\* whose attributes map every type of the array to the value of the last
\* element of that type.
C20_ParsedEvent ==
    LET segs == split(mqttc.msg.topic, Slash)
        items == loads(mqttc.msg.payload) IN
    (/\ mqttc.cb.name = "on_message"
     /\ Len(segs) >= 2 /\ segs[1] = "wifielement"
     /\ Decodable(mqttc.msg.payload) /\ Len(items) > 0)
    => /\ mqttc.cb.exc = None
       /\ mqttc.cb.device.id = segs[2]
       /\ mqttc.cb.device.time = items[1].time
       /\ mqttc.cb.device.attributes =
            {<<items[i].type, LastValue(items, items[i].type)>> : i \in 1..Len(items)}

C20_Witness ==
    /\ mqttc.cb.name = "on_message"
    /\ mqttc.msg.payload = Payloads.three
    /\ mqttc.cb.device = [id |-> "D2", time |-> 20,
                          attributes |-> {<<"brightness", "80">>, <<"switch", "0">>}]

\* C21: a message whose topic is not rooted at wifielement/ schedules no
\* callback; a message that is accepted and parsed schedules the registered
\* msg_callback exactly once, with the parsed device as its argument.
C21_EventHandedToCallback ==
    LET segs == split(mqttc.msg.topic, Slash) IN
    mqttc.cb.name = "on_message" =>
       /\ segs[1] # "wifielement" => mqttc.cb.scheduled = <<>>
       /\ (/\ segs[1] = "wifielement" /\ Len(segs) >= 2
           /\ Decodable(mqttc.msg.payload) /\ Len(loads(mqttc.msg.payload)) > 0
           /\ mqttc.msg_callback)
          => mqttc.cb.scheduled = <<[fn |-> "msg_callback", args |-> <<mqttc.cb.device>>]>>

\* a step in which publish_mqtt ran, called by the host or by set_device_state
PublishRan ==
    /\ task[Main].pc = "idle"
    /\ task'[Main].op \in {"publish_mqtt", "set_device_state"}
    /\ mqttc'.published.calls # <<>>
    /\ mqttc'.cb = mqttc.cb /\ mqttc'.connected = mqttc.connected
    /\ task' # task \/ mqttc' # mqttc

C23_CancelAbsentClosePropagates ==
    \A c \in Procs :
        LET t == task[c] IN
        (t.pc = "idle" /\ t.op \in {"get_devices", "login", "async_connect"}) =>
           /\ t.signal = "CancelledError" => t.outcome = [kind |-> "return", val |-> None]
           /\ t.signal = "SengledWifipyLoginCloseRequested" =>
                 t.outcome = [kind |-> "raise", val |-> "SengledWifipyLoginCloseRequested"]

\* C24: when the device-list request was answered with a status >= 400 other
\* than 401 and 429, get_devices does not raise, what it returns is empty or
\* absent, and the cache entry of the account is still unset or a device list.
C24_UnusableResponseKeepsCache ==
    \A c \in Procs :
        LET t == task[c] IN
        (/\ t.op = "get_devices" /\ t.pc = "idle" /\ t.signal = None
         /\ t.last >= 400 /\ t.last \notin {401, 429})
        => /\ t.outcome.kind = "return"
           /\ t.outcome.val = "devices[email]" => devices[Email].kind # "dict"
           /\ devices[Email].kind \in {"unset", "list"}

\* the devices of list that get_devices is to keep, in the order of list
RECURSIVE Wanted(_, _)
Wanted(list, entity_ids) ==
    IF list = <<>> THEN <<>>
    ELSE LET d == Head(list)
             keep == /\ d.category = "wifielement"
                     /\ (~entity_ids.all => d.deviceUuid \in entity_ids.ids)
         IN (IF keep THEN <<d>> ELSE <<>>) \o Wanted(Tail(list), entity_ids)

\* a get_devices call has returned the cache entry it assigned from a response
GotDevices(t) ==
    /\ t.op = "get_devices" /\ t.pc = "idle"
    /\ t.outcome = [kind |-> "return", val |-> "devices[email]"]
    /\ t.deviceList # <<>>

\* C25: the step in which a get_devices call assigns the devices of a
\* response makes the entry of the account exactly the wanted devices of that
\* response and leaves the entries of other accounts alone; and when two
\* overlapping calls have both succeeded the entry is the complete result of
\* one of them.
C25_CacheReplacedWholesale ==
    /\ [][\A c \in Procs :
            (task[c].pc = "gd_req" /\ task[c].ret = "response" /\ task'[c].pc = "top_ca") =>
               /\ devices'[Email] =
                     [kind |-> "list",
                      list |-> Wanted(task'[c].deviceList, task[c].entity_ids)]
               /\ \A a \in Accounts \ {Email} : devices'[a] = devices[a]]_vars
    /\ []((GotDevices(task[Main]) /\ GotDevices(task[Other])) =>
            \E c \in Procs :
                devices[Email] =
                   [kind |-> "list", list |-> Wanted(task[c].deviceList, task[c].entity_ids)])

C25_Witness ==
    /\ GotDevices(task[Main]) /\ GotDevices(task[Other])
    /\ Wanted(task[Main].deviceList, task[Main].entity_ids)
          # Wanted(task[Other].deviceList, task[Other].entity_ids)
    /\ devices[Email].list = Wanted(task[Main].deviceList, task[Main].entity_ids)
    /\ Len(devices[Email].list) = 1

\* the entries of a published payload: the objects of the JSON text, in order
PublishedEntries(payload) ==
    [i \in 1..((Len(payload) - 1) \div 2) |-> payload[2 * i].obj]

\* what was supplied for an option, if anything
Supplied(arg) == arg.kind # "None"

\* a step in which set_device_state ran with arguments a on entity e and
\* published
SetStateRan(e, a) ==
    /\ task[Main].pc = "idle" /\ task'[Main].op = "set_device_state"
    /\ task'[Main].outcome.kind = "return"
    /\ mqttc'.cb = mqttc.cb /\ mqttc'.connected = mqttc.connected
    /\ task' # task \/ mqttc' # mqttc
    /\ mqttc'.published.payload = dumps(CommandEntries(e, now, Options(a[1], a[2], a[3], a[4])))

C27_ReturnsPublishResult ==
    (task[Main].op = "set_device_state" /\ task[Main].pc = "idle"
        /\ task[Main].outcome.kind = "return")
    => task[Main].outcome.val = (IF mqttc.published.sent THEN "True" ELSE "False")

\* the guarded function of the running call has been entered
InBody(t) == \E i \in 1..Len(t.stack) : t.stack[i] = "g_body"

\* the attempts of a guarded call so far: the tries of the request wrapper,
\* or the one attempt of a call that is not retried
Attempts(t) == IF t.op = "get_devices" THEN t.tries ELSE 1

UsesSession(c) ==
    /\ task'[c] # task[c]
    /\ \/ task[c].pc \in {"lg_cred", "lg_save", "sr_start"}
       \/ task[c].pc = "vl_exists" /\ cookiefile # NoFile
       \/ /\ task[c].pc = "lg_post"
          /\ \/ task'[c].pc = "dc_exists"
             \/ task'[c].pc = "raise" /\ task'[c].exc = "AttributeError"

\* C29: with two guarded calls running concurrently on the same session,
\* interleaved at their suspension points, no caller finds the HTTP session
\* handle absent where it sends a request or reads the cookie jar, in
\* particular not while the other caller is inside reset().
C29_HandleNeverAbsent ==
    [][\A c \in Procs : UsesSession(c) => session.obj # None]_vars

\* a valid_login() called on a session that has never logged in has ended
FirstCheckEnded(t) ==
    /\ login_timestamp = login_timestamp_initial
    /\ VLReturned(t) \/ VLRaised(t)

\* C30 as stated: on a new session the first valid_login() returns false
\* without a request to the validSession endpoint, even when a cookie file
\* exists already, and that cookie file is deleted by the call.
C30_FirstCheckDeletesFile ==
    \A c \in Procs :
        LET t == task[c] IN
        FirstCheckEnded(t) =>
            /\ VLReturned(t) /\ t.ret = "False"
            /\ t.posts = 0 /\ t.vlAnswer = NoValidSessionAnswer
            /\ cookiefile = NoFile

\* C30 amended: the same, except that the cookie file stays when its
\* removal fails.
C30_FirstCheckDeletesFileUnlessRemoveFails ==
    \A c \in Procs :
        LET t == task[c] IN
        FirstCheckEnded(t) =>
            /\ VLReturned(t) /\ t.ret = "False"
            /\ t.posts = 0 /\ t.vlAnswer = NoValidSessionAnswer
            /\ cookiefile = NoFile \/ (t.rmFailed /\ cookiefile = t.vlFile /\ t.vlFile # NoFile)

\* a first check that found a cookie file and removed it
C30_Witness ==
    /\ FirstCheckEnded(task[Main]) /\ task[Main].op = "valid_login"
    /\ task[Main].ret = "False" /\ task[Main].posts = 0
    /\ task[Main].vlFile \in JSessionIds /\ cookiefile = NoFile

\* C31: once on_connect has run with reason code 0, the connected flag stays
\* true until on_disconnect runs; no other callback of the running connection
\* (on_log, on_subscribe, on_message) turns it false.
C31_FlagHeldUntilDisconnect ==
    [][(mqttc.status /\ mqttc'.cb.name # "on_disconnect") => mqttc'.status]_vars

\* C32: whenever on_connect runs with reason code 0, the device list used for
\* the topics has been set (it is not the None of __init__), for every order
\* of operations on the manager, including a publish that reconnects before
\* async_connect(devices) was ever called.
C32_DevicesSetAtConnect ==
    [][OnConnectStep(0) => mqttc.devices.given]_vars

\* a step in which the manager connects to the broker: async_connect's body,
\* or a publish that finds the client not connected
ConnectRan ==
    \/ task[Main].pc = "ac_body" /\ task'[Main] # task[Main]
    \/ PublishRan /\ mqttc'.published.calls[1] = "connect"

\* C33: at every MQTT connect or lazy reconnect the client identity and the
\* handshake cookie of the manager are those of the current session cookie
\* of its session ({cookie}@lifeApp), also after the session went through
\* reset() and a new credential login since the manager was constructed.
C33_IdentityFollowsSession ==
    [][ConnectRan =>
         /\ mqttc.jsession_id = session.jar
         /\ mqttc.clientid = session.jar \o "@lifeApp"]_vars

====
